---- MODULE Spec2Model ----
(***************************************************************************)
(* A model of selectionStats.py: the stop-codon masking transform          *)
(* (replace_stop), the per-alignment statistics routine (calc_stats), the  *)
(* report writer (write_outfile) and the top-level script that resolves    *)
(* the input alignments and drives the run.                                *)
(***************************************************************************)
EXTENDS Integers, Sequences, FiniteSets, TLC

VARIABLES
    sequence,       \* replace_stop: the argument
    new_sequence,   \* replace_stop: the returned string (None before the call)
    mpc,            \* replace_stop: "idle", "call" before the call, "ret" after it
    args,           \* the parsed command line: alignment, directory, frame, outgroup
    pc,             \* position of the script: "main", "loop", "write", "done", "exited", "raised"
    queue,          \* directory mode: the paths glob returned that are still to be processed
    alignDict,      \* the aggregation map, in insertion order: <<[name, stat], ...>>
    outfile,        \* selectionStats.txt: None until opened, then its lines (each a list of fields)
    call,           \* the last calc_stats call: its alignment, the library's polyDict, its outcome
    processed       \* every calc_stats call of the run, in order: path, name, outcome

maskVars == <<sequence, new_sequence, mpc>>
runVars == <<args, pc, queue, alignDict, outfile, call, processed>>
vars == <<sequence, new_sequence, mpc, args, pc, queue, alignDict, outfile, call, processed>>

\* Python's None; a number n is the one-element tuple <<n>>
None == <<>>
Num(n) == <<n>>

(***************************************************************************)
(* Strings are sequences of tokens (characters, or a word such as "fasta"  *)
(* that is never split).                                                   *)
(***************************************************************************)
MaxLen == 5

Alphabet == {"T", "A", "G", "t", "a", "g"}

RECURSIVE SeqsUpTo(_, _)
SeqsUpTo(S, n) ==
    IF n = 0 THEN {<<>>}
    ELSE LET shorter == SeqsUpTo(S, n - 1)
         IN  shorter \cup {Append(s, x) : s \in {t \in shorter : Len(t) = n - 1}, x \in S}

Min(a, b) == IF a < b THEN a ELSE b

\* sequence[i:j] with 0-based i, exclusive j, clipped to the string as Python does
Slice(s, i, j) == SubSeq(s, i + 1, Min(j, Len(s)))

\* range(0, n, 3)
Range3(n) == {i \in 0..(n - 1) : i % 3 = 0}

\* codons = [sequence[i:i+3] for i in range(0, len(sequence), 3)]
Codons(s) == [k \in 1..Cardinality(Range3(Len(s))) |-> Slice(s, 3 * (k - 1), 3 * (k - 1) + 3)]

stop_codons == {<<"T","A","A">>, <<"T","A","G">>, <<"T","G","A">>,
                <<"t","a","a">>, <<"t","a","g">>, <<"t","g","a">>}

GapCodonShort == <<"-", "-">>

GapCodon == <<"-", "-", "-">>

\* x if x not in stop_codons else '---'
MaskCodon(x) == IF x \notin stop_codons THEN x ELSE GapCodon

RECURSIVE Join(_)
\* ''.join(codons)
Join(cs) == IF cs = <<>> THEN <<>> ELSE Head(cs) \o Join(Tail(cs))

replace_stop(s) == Join([k \in DOMAIN Codons(s) |-> MaskCodon(Codons(s)[k])])

(***************************************************************************)
(* The population-genetics library, as far as calc_stats uses it.  An      *)
(* alignment is its sequence names in file order, the group label of each  *)
(* sequence and the common sequence length ls; it has two sequences or     *)
(* more, as calc_stats reads a.sequence(1).  The characters of the         *)
(* sequences are not kept: replace_stop keeps their length, and the        *)
(* statistics the library derives from them are drawn from PolyDicts.      *)
(***************************************************************************)
MaxOut == 2
MaxSeqLen == 7

Labels == {<<"A">>, <<"A", "B">>, <<"C">>}

\* the sequence names of an alignment: two sequences or more, no name twice
NameLists ==
    {s \in SeqsUpTo(Labels, Cardinality(Labels)) :
        Len(s) >= 2 /\ \A i, j \in DOMAIN s : s[i] = s[j] => i = j}

Lengths == 6..MaxSeqLen

\* egglib.io.from_fasta
from_fasta(names, ls) == [names |-> names, groups |-> [i \in DOMAIN names |-> 0], ls |-> ls]

Alignments == {from_fasta(n, l) : n \in NameLists, l \in Lengths}

\* what cs.process_align may return
PolyDicts ==
    [thetaW : {None, Num(4)}, Pi : {None, Num(2)}, D : {None, Num(1)},
     lseff : {None, Num(0), Num(2)}, nseff : {Num(3)}]

IsPrefix(p, s) == Len(p) <= Len(s) /\ SubSeq(s, 1, Len(p)) = p

\* a.find(name, strict=False): the index of the first sequence whose name starts
\* with the given name, None when there is none
find(a, name) ==
    LET hits == {i \in DOMAIN a.names : IsPrefix(name, a.names[i])}
    IN  IF hits = {} THEN None
        ELSE Num(CHOOSE i \in hits : \A j \in hits : i <= j)

RemoveAt(s, i) == SubSeq(s, 1, i - 1) \o SubSeq(s, i + 1, Len(s))

\* del temp_a[index]
delete(a, i) == [a EXCEPT !.names = RemoveAt(a.names, i), !.groups = RemoveAt(a.groups, i)]

\* a.extract(0, stop): the same sequences cut to the first stop positions
extract(a, stop) == [a EXCEPT !.ls = stop]

OutgroupLabel == 999

\* temp_a.group(index, group=999)
group(a, i) == [a EXCEPT !.groups[i] = OutgroupLabel]

\* polymorphismBPP(dataType=4): the library's values, which only their presence matters of
polymorphismBPP(a) ==
    [PiNS |-> Num(1), PiS |-> Num(1),
     MK |-> Num(Cardinality({i \in DOMAIN a.groups : a.groups[i] = OutgroupLabel})),
     NI |-> Num(Len(a.names))]

\* list.remove(o): drops the first occurrence
RemoveFirst(s, o) ==
    LET hits == {i \in DOMAIN s : s[i] = o}
    IN  IF hits = {} THEN s ELSE RemoveAt(s, CHOOSE i \in hits : \A j \in hits : i <= j)

(***************************************************************************)
(* calc_stats.  Its outcome is [kind, statDict, mk]: kind is "return",     *)
(* "exit" (sys.exit) or "raise" (an exception nothing catches); mk lists   *)
(* the MK steps taken: the outgroup and the working alignment of each.     *)
(***************************************************************************)
Key(k) == <<k>>
MKKey(o) == <<"MK_">> \o o
NIKey(o) == <<"NI_">> \o o

EmptyDict == [k \in {} |-> None]

Put(d, k, v) == [x \in DOMAIN d \cup {k} |-> IF x = k THEN v ELSE d[x]]

\* lines 73-83: the try block and its except TypeError
Diversity(polyDict) ==
    LET typeError == Put(Put(Put(Put(EmptyDict, Key("theta"), None), Key("pi"), None),
                             Key("tajimaD"), None), Key("nseff"), polyDict.nseff)
    IN  IF polyDict.thetaW = None \/ polyDict.lseff = None
        THEN [kind |-> "ok", statDict |-> typeError]
        ELSE IF polyDict.lseff = Num(0)
        THEN [kind |-> "raise", statDict |-> EmptyDict]
        ELSE IF polyDict.Pi = None
        THEN [kind |-> "ok", statDict |-> typeError]
        ELSE [kind |-> "ok",
              statDict |-> Put(Put(Put(Put(EmptyDict,
                  Key("theta"), Num(polyDict.thetaW[1] \div polyDict.lseff[1])),
                  Key("pi"), Num(polyDict.Pi[1] \div polyDict.lseff[1])),
                  Key("tajimaD"), polyDict.D), Key("nseff"), polyDict.nseff)]

RECURSIVE Prune(_, _)
\* lines 97-100: drop the first match of every other outgroup
Prune(temp_a, otherOutgroups) ==
    IF otherOutgroups = <<>> THEN temp_a
    ELSE LET index == find(temp_a, Head(otherOutgroups))
         IN  Prune(IF index # None THEN delete(temp_a, index[1]) ELSE temp_a,
                   Tail(otherOutgroups))

\* lines 103-106: the outgroup was not found
MissingOutgroupSkip(o, statDict, mk) ==
    [kind |-> "continue", statDict |-> Put(Put(statDict, MKKey(o), None), NIKey(o), None),
     mk |-> mk]

MissingOutgroup(o, statDict, mk) == [kind |-> "exit", statDict |-> statDict, mk |-> mk]

\* lines 94-109: one turn of the loop over the outgroups; temp_a.group(None, ...)
\* is what raises the IndexError of line 103
MKStep(a, outgroup, o, statDict, mk) ==
    LET temp_a == extract(a, a.ls - 3)
        pruned == Prune(temp_a, RemoveFirst(outgroup, o))
        index  == find(pruned, o)
    IN  IF index = None THEN MissingOutgroup(o, statDict, mk)
        ELSE LET grouped == group(pruned, index[1])
                 polyDictBPP == polymorphismBPP(grouped)
             IN  [kind |-> "continue",
                  statDict |-> Put(Put(statDict, MKKey(o), polyDictBPP.MK),
                                   NIKey(o), polyDictBPP.NI),
                  mk |-> Append(mk, [o |-> o, temp_a |-> grouped])]

RECURSIVE MKLoop(_, _, _, _, _)
\* line 93: for o in outgroup
MKLoop(a, outgroup, i, statDict, mk) ==
    IF i > Len(outgroup) THEN [kind |-> "return", statDict |-> statDict, mk |-> mk]
    ELSE LET step == MKStep(a, outgroup, outgroup[i], statDict, mk)
         IN  IF step.kind = "continue"
             THEN MKLoop(a, outgroup, i + 1, step.statDict, step.mk)
             ELSE step

\* lines 84-91: the frame check and piN/piS
FrameStats(a, frame, statDict) ==
    IF frame
    THEN IF a.ls % 3 # 0
         THEN [kind |-> "return", statDict |-> EmptyDict]
         ELSE LET polyDictBPP == polymorphismBPP(a)
              IN  [kind |-> "ok",
                   statDict |-> Put(Put(statDict, Key("piN"), polyDictBPP.PiNS),
                                    Key("piS"), polyDictBPP.PiS)]
    ELSE [kind |-> "ok", statDict |-> statDict]

calc_stats(a, polyDict, frame, outgroup) ==
    LET div == Diversity(polyDict)
    IN  IF div.kind = "raise" THEN [kind |-> "raise", statDict |-> EmptyDict, mk |-> <<>>]
        ELSE LET fr == FrameStats(a, frame, div.statDict)
             IN  IF fr.kind = "return"
                 THEN [kind |-> "return", statDict |-> fr.statDict, mk |-> <<>>]
                 ELSE IF outgroup # None
                 THEN MKLoop(a, outgroup, 1, fr.statDict, <<>>)
                 ELSE [kind |-> "return", statDict |-> fr.statDict, mk |-> <<>>]

(***************************************************************************)
(* Paths and the input resolver (lines 141-148).  The files on disk: two   *)
(* alignments, a text file and a subdirectory inside directory d, and two  *)
(* alignments beside d whose names start with d.                           *)
(***************************************************************************)
Ext == <<".", "fasta">>

Files ==
    {<<"x">> \o Ext, <<"d", "/", "x">> \o Ext, <<"d", "/", "y">> \o Ext, <<"d", "/", "x", ".", "txt">>,
     <<"d", "/", "s", "/", "z">> \o Ext, <<"d", "x">> \o Ext, <<"d", "d", "x">> \o Ext}

\* the files given with -a
ArgFiles == {<<"x">> \o Ext, <<"d", "/", "x">> \o Ext}

\* the spellings of directory d that is_dir accepts
Directories == {<<"d">>, <<"d", "/">>}

LastIndex(s, c) ==
    LET hits == {i \in DOMAIN s : s[i] = c}
    IN  IF hits = {} THEN 0 ELSE CHOOSE i \in hits : \A j \in hits : j <= i

\* os.path.splitext(p)[0]: cut at the last dot of the last component
SplitextRoot(p) ==
    LET dot == LastIndex(p, ".")
    IN  IF dot > LastIndex(p, "/") + 1 THEN SubSeq(p, 1, dot - 1) ELSE p

RECURSIVE Replace(_, _)
\* s.replace(old, ""): every occurrence of old, left to right
Replace(s, old) ==
    IF Len(s) < Len(old) \/ old = <<>> THEN s
    ELSE IF SubSeq(s, 1, Len(old)) = old THEN Replace(SubSeq(s, Len(old) + 1, Len(s)), old)
    ELSE <<Head(s)>> \o Replace(Tail(s), old)

\* glob.glob(directory + '*.fasta'): the star matches within one path component
Glob(directory) ==
    {p \in Files :
        /\ Len(p) >= Len(directory) + Len(Ext)
        /\ SubSeq(p, 1, Len(directory)) = directory
        /\ SubSeq(p, Len(p) - Len(Ext) + 1, Len(p)) = Ext
        /\ \A i \in (Len(directory) + 1)..(Len(p) - Len(Ext)) : p[i] # "/"}

\* line 143
DirAlignName(align, directory) == Replace(SplitextRoot(align), directory)

\* line 147
FileAlignName(alignment) == SplitextRoot(alignment)

Orders(S) == {q \in SeqsUpTo(S, Cardinality(S)) : {q[i] : i \in DOMAIN q} = S}

\* alignDict[alignName] = ...: a new key goes last, a known key keeps its place
DictSet(d, name, stat) ==
    IF \E i \in DOMAIN d : d[i].name = name
    THEN [i \in DOMAIN d |-> IF d[i].name = name THEN [name |-> name, stat |-> stat] ELSE d[i]]
    ELSE Append(d, [name |-> name, stat |-> stat])

(***************************************************************************)
(* write_outfile: the file is a list of lines, a line a list of fields     *)
(* (the text between two tabs).                                            *)
(***************************************************************************)
\* '%s' % value and str(value)
Str(v) == IF v = None THEN <<"None">> ELSE <<ToString(v[1])>>

RECURSIVE MKColumns(_)
\* lines 119-121
MKColumns(outgroup) ==
    IF outgroup = <<>> THEN <<>>
    ELSE <<MKKey(Head(outgroup)), NIKey(Head(outgroup))>> \o MKColumns(Tail(outgroup))

HeaderUngated(frame, outgroup) ==
    <<<<"Alignment">>, <<"Theta">>, <<"Pi">>, <<"TajimasD">>, <<"nseff">>>>
    \o (IF frame THEN <<<<"PiN">>, <<"PiS">>>> ELSE <<>>)
    \o (IF outgroup # None THEN MKColumns(outgroup) ELSE <<>>)

\* lines 115-122
Header(frame, outgroup) ==
    <<<<"Alignment">>, <<"Theta">>, <<"Pi">>, <<"TajimasD">>, <<"nseff">>>>
    \o (IF frame
        THEN <<<<"PiN">>, <<"PiS">>>> \o (IF outgroup # None THEN MKColumns(outgroup) ELSE <<>>)
        ELSE <<>>)

RECURSIVE MKFields(_, _)
\* lines 132-134
MKFields(s, outgroup) ==
    IF outgroup = <<>> THEN <<>>
    ELSE <<Str(s[MKKey(Head(outgroup))]), Str(s[NIKey(Head(outgroup))])>>
         \o MKFields(s, Tail(outgroup))

\* lines 128-135
Row(a, s, frame, outgroup) ==
    <<a, Str(s[Key("theta")]), Str(s[Key("pi")]), Str(s[Key("tajimaD")]), Str(s[Key("nseff")])>>
    \o (IF frame
        THEN <<Str(s[Key("piN")]), Str(s[Key("piS")])>>
             \o (IF outgroup # None THEN MKFields(s, outgroup) ELSE <<>>)
        ELSE <<>>)

RECURSIVE Rows(_, _, _)
\* lines 123-127: an empty StatResult writes no row
Rows(d, frame, outgroup) ==
    IF d = <<>> THEN <<>>
    ELSE (IF DOMAIN Head(d).stat = {} THEN <<>>
          ELSE <<Row(Head(d).name, Head(d).stat, frame, outgroup)>>)
         \o Rows(Tail(d), frame, outgroup)

write_outfile(d, frame, outgroup) == <<Header(frame, outgroup)>> \o Rows(d, frame, outgroup)

(***************************************************************************)
(* The script.                                                             *)
(***************************************************************************)
\* -o takes one label or more (nargs='+'), here no label twice; without -o the
\* list is None
OutgroupLists ==
    {None} \cup {s \in SeqsUpTo(Labels, MaxOut) :
                    Len(s) >= 1 /\ \A i, j \in DOMAIN s : s[i] = s[j] => i = j}

\* get_arguments: exactly one of -a and -d
ArgSets ==
    [alignment : ArgFiles, directory : {None}, frame : BOOLEAN, outgroup : OutgroupLists]
    \cup [alignment : {None}, directory : Directories, frame : BOOLEAN, outgroup : OutgroupLists]

NoCall == [a |-> None, polyDict |-> None, result |-> None]

\* the alignments and library answers the script is run over
RunAlignments == {a \in Alignments : Len(a.names) = 2}

RunPolyDicts == {d \in PolyDicts : d.Pi # None /\ d.D # None /\ (d.thetaW = None => d.lseff = None)}

Idle ==
    /\ pc = "main"
    /\ queue = <<>>
    /\ alignDict = <<>>
    /\ outfile = None
    /\ call = NoCall
    /\ processed = <<>>

Init ==
    /\ sequence = <<>>
    /\ new_sequence = None
    /\ mpc = "idle"
    /\ args \in ArgSets
    /\ Idle

\* line 144 or 148: alignDict[alignName] = calc_stats(align, args.outgroup)
Process(align, alignName, a, polyDict, next) ==
    LET result == calc_stats(a, polyDict, args.frame, args.outgroup)
    IN  /\ processed' = Append(processed, [align |-> align, name |-> alignName,
                                           kind |-> result.kind, statDict |-> result.statDict,
                                           names |-> a.names, ls |-> a.ls])
        /\ alignDict' = IF result.kind = "return"
                        THEN DictSet(alignDict, alignName, result.statDict)
                        ELSE alignDict
        /\ pc' = CASE result.kind = "return" -> next
                   [] result.kind = "exit" -> "exited"
                   [] OTHER -> "raised"

\* line 142: the order glob returns the files in is the file system's
GlobDirectory ==
    /\ pc = "main"
    /\ args.alignment = None
    /\ \E order \in Orders(Glob(args.directory)) : queue' = order
    /\ pc' = "loop"
    /\ UNCHANGED <<args, alignDict, outfile, call, processed, maskVars>>

\* lines 142-144: one turn of the loop
DirectoryStep ==
    /\ pc = "loop"
    /\ queue # <<>>
    /\ \E a \in RunAlignments, polyDict \in RunPolyDicts :
          Process(Head(queue), DirAlignName(Head(queue), args.directory), a, polyDict, "loop")
    /\ queue' = Tail(queue)
    /\ UNCHANGED <<args, outfile, call, maskVars>>

\* lines 147-148
SingleFile ==
    /\ pc = "main"
    /\ args.alignment # None
    /\ \E a \in RunAlignments, polyDict \in RunPolyDicts :
          Process(args.alignment, FileAlignName(args.alignment), a, polyDict, "write")
    /\ UNCHANGED <<args, queue, outfile, call, maskVars>>

\* line 150
WriteOutfile ==
    /\ (pc = "loop" /\ queue = <<>>) \/ pc = "write"
    /\ outfile' = write_outfile(alignDict, args.frame, args.outgroup)
    /\ pc' = "done"
    /\ UNCHANGED <<args, queue, alignDict, call, processed, maskVars>>

Next == GlobDirectory \/ DirectoryStep \/ SingleFile \/ WriteOutfile

Spec == Init /\ [][Next]_vars

(***************************************************************************)
(* calc_stats on its own: one call, over every alignment and every answer  *)
(* of the library.                                                         *)
(***************************************************************************)
CalcInit ==
    /\ sequence = <<>>
    /\ new_sequence = None
    /\ mpc = "idle"
    /\ args \in [alignment : {<<"x">> \o Ext}, directory : {None}, frame : BOOLEAN,
                 outgroup : OutgroupLists]
    /\ Idle

CalcStats ==
    /\ pc = "main"
    /\ \E a \in Alignments, polyDict \in PolyDicts :
          call' = [a |-> a, polyDict |-> polyDict,
                   result |-> calc_stats(a, polyDict, args.frame, args.outgroup)]
    /\ pc' = "called"
    /\ UNCHANGED <<args, queue, alignDict, outfile, processed, maskVars>>

CalcNext == CalcStats

SpecCalc == CalcInit /\ [][CalcNext]_vars

(***************************************************************************)
(* replace_stop on its own: every string up to MaxLen characters.          *)
(***************************************************************************)
MaskInit ==
    /\ sequence \in SeqsUpTo(Alphabet, MaxLen)
    /\ new_sequence = None
    /\ mpc = "call"
    /\ args = [alignment |-> None, directory |-> None, frame |-> TRUE, outgroup |-> None]
    /\ Idle

ReplaceStop ==
    /\ mpc = "call"
    /\ new_sequence' = replace_stop(sequence)
    /\ mpc' = "ret"
    /\ UNCHANGED <<sequence, runVars>>

MaskNext == ReplaceStop

SpecMask == MaskInit /\ [][MaskNext]_vars

(***************************************************************************)
(* Properties of replace_stop (SpecMask).                                  *)
(***************************************************************************)
Upper(c) == CASE c = "t" -> "T" [] c = "a" -> "A" [] c = "g" -> "G" [] OTHER -> c

UpperCodon(x) == [i \in DOMAIN x |-> Upper(x[i])]

\* a stop codon under case-insensitive comparison
IsStopAnyCase(x) == UpperCodon(x) \in {<<"T","A","A">>, <<"T","A","G">>, <<"T","G","A">>}

\* the codon-aligned windows of s (the last one may hold 1 or 2 characters)
Windows(s) == DOMAIN Codons(s)
Window(s, k) == Slice(s, 3 * (k - 1), 3 * k)

\* C1: every codon-aligned 3-character window of S that is a stop codon under
\* case-insensitive comparison (any mix of upper and lower case) is '---' in
\* replace_stop(S).
C1_EveryCaseStopMasked ==
    mpc = "ret" =>
        \A k \in Windows(sequence) :
            IsStopAnyCase(Window(sequence, k)) => Window(new_sequence, k) = <<"-", "-", "-">>

\* C2: replace_stop(S) is as long as S, every codon-aligned window that is not a
\* stop codon is returned unchanged at its position, and so is a trailing partial
\* codon of 1 or 2 characters.
C2_LengthAndPassThrough ==
    mpc = "ret" =>
        /\ Len(new_sequence) = Len(sequence)
        /\ \A k \in Windows(sequence) :
              ~IsStopAnyCase(Window(sequence, k)) =>
                  Window(new_sequence, k) = Window(sequence, k)

\* a codon that is no stop codon and a trailing partial codon of two characters, both kept
C2_Witness ==
    /\ mpc = "ret"
    /\ Len(sequence) = 5
    /\ ~IsStopAnyCase(Window(sequence, 1))
    /\ Len(Window(sequence, 2)) = 2
    /\ new_sequence = sequence

(***************************************************************************)
(* Properties of calc_stats (SpecCalc).                                    *)
(***************************************************************************)
Range(s) == {s[i] : i \in DOMAIN s}

\* the name matches the outgroup label under the non-strict comparison
Matches(name, o) == IsPrefix(o, name)

\* C3: the working alignment of the MK test for outgroup O holds no sequence that
\* matches another supplied outgroup (and is not a sequence of O itself), and holds
\* a sequence of O in group 999.
C3_OutgroupIsolated ==
    pc = "called" =>
        \A i \in DOMAIN call.result.mk :
            LET o == call.result.mk[i].o
                t == call.result.mk[i].temp_a
            IN  /\ \A j \in DOMAIN t.names :
                      \/ Matches(t.names[j], o)
                      \/ \A other \in Range(args.outgroup) \ {o} : ~Matches(t.names[j], other)
                /\ \E j \in DOMAIN t.names :
                      Matches(t.names[j], o) /\ t.groups[j] = OutgroupLabel

IsMKKey(k) == Len(k) >= 1 /\ k[1] \in {"MK_", "NI_"}

\* C5: in frame mode an alignment whose length is not a multiple of 3 makes
\* calc_stats return an empty StatResult, and no MK step is taken for it.
C5_OutOfFrameReturnsEmpty ==
    (pc = "called" /\ args.frame /\ call.a.ls % 3 # 0) =>
        /\ call.result.kind = "return"
        /\ DOMAIN call.result.statDict = {}
        /\ call.result.mk = <<>>

\* the library could not compute a diversity value
NotComputable(polyDict) ==
    \/ polyDict.thetaW = None
    \/ polyDict.Pi = None
    \/ polyDict.lseff = None
    \/ polyDict.lseff = Num(0)

\* C8: when thetaW or Pi is missing, or lseff is missing or zero, calc_stats does
\* not fail, and the StatResult it builds holds null theta, pi and tajimaD together
\* with the library's nseff.
C8_NotComputableGivesNulls ==
    (pc = "called" /\ NotComputable(call.polyDict)) =>
        /\ call.result.kind # "raise"
        /\ DOMAIN call.result.statDict # {} =>
              /\ call.result.statDict[Key("theta")] = None
              /\ call.result.statDict[Key("pi")] = None
              /\ call.result.statDict[Key("tajimaD")] = None
              /\ call.result.statDict[Key("nseff")] = call.polyDict.nseff

(***************************************************************************)
(* Properties of the run (Spec).                                           *)
(***************************************************************************)
\* the alignment holds no sequence for one of the supplied outgroups
MissingOutgroupIn(names) ==
    /\ args.outgroup # None
    /\ \E o \in Range(args.outgroup) : \A j \in DOMAIN names : ~Matches(names[j], o)

\* the alignment is rejected by the frame check
Rejected(p) == args.frame /\ p.ls % 3 # 0

\* C4 as stated: an outgroup absent from any alignment of the run keeps the output
\* file from ever being opened.
C4_MissingOutgroupNoFile ==
    outfile # None => \A i \in DOMAIN processed : ~MissingOutgroupIn(processed[i].names)

\* C4 amended: an outgroup absent from an alignment that the frame check does not
\* reject keeps the output file from ever being opened.
C4_MissingOutgroupInFrameNoFile ==
    outfile # None =>
        \A i \in DOMAIN processed :
            ~Rejected(processed[i]) => ~MissingOutgroupIn(processed[i].names)

\* the second alignment of a directory lacks an outgroup and stops the run
C4_Witness ==
    /\ Len(processed) = 2
    /\ ~Rejected(processed[2])
    /\ MissingOutgroupIn(processed[2].names)
    /\ ~MissingOutgroupIn(processed[1].names)
    /\ pc = "exited"
    /\ outfile = None

\* C6: every data row of the written file has as many columns as its header row.
C6_RowsMatchHeader ==
    outfile # None => \A i \in DOMAIN outfile : Len(outfile[i]) = Len(outfile[1])

\* a frame-mode report with two outgroups and a row whose theta is null
C6_Witness ==
    /\ outfile # None
    /\ args.frame
    /\ args.outgroup # None
    /\ Len(args.outgroup) = 2
    /\ Len(outfile) = 3
    /\ outfile[2][2] = <<"None">>
    /\ Len(outfile[2]) = 11

MKKeysOf(statDict) == {k \in DOMAIN statDict : IsMKKey(k)}

\* C7: without -f no MK computation is made (no MK_/NI_ entry, no fatal exit), so
\* the MK_/NI_ entries of a non-empty StatResult are the MK_/NI_ columns of the header.
C7_MKGatedOnFrame ==
    \A i \in DOMAIN processed :
        /\ ~args.frame =>
              /\ processed[i].kind # "exit"
              /\ MKKeysOf(processed[i].statDict) = {}
        /\ (processed[i].kind = "return" /\ DOMAIN processed[i].statDict # {}) =>
              MKKeysOf(processed[i].statDict)
                  = {k \in Range(Header(args.frame, args.outgroup)) : IsMKKey(k)}

RECURSIVE AcceptedNames(_)
\* the names of the alignments with a non-empty StatResult, in processing order
AcceptedNames(ps) ==
    IF ps = <<>> THEN <<>>
    ELSE (IF DOMAIN Head(ps).statDict # {} THEN <<Head(ps).name>> ELSE <<>>)
         \o AcceptedNames(Tail(ps))

\* every supplied outgroup is the name of a sequence of the alignment
EveryOutgroupNamed(names) ==
    args.outgroup # None => \A o \in Range(args.outgroup) : o \in Range(names)

\* C9: when every alignment holds a sequence named as each outgroup (and the
\* library's answer makes no call raise) the run is not stopped: every alignment is
\* processed, and the report holds one row per alignment with a non-empty
\* StatResult, in processing order.
C9_OneRowPerAcceptedAlignment ==
    (\A i \in DOMAIN processed :
        EveryOutgroupNamed(processed[i].names) /\ processed[i].kind # "raise") =>
        /\ pc \notin {"exited", "raised"}
        /\ outfile # None =>
              [i \in 1..(Len(outfile) - 1) |-> outfile[i + 1][1]] = AcceptedNames(processed)

\* the file name without its directory prefix and without its extension
BaseName(p) == SplitextRoot(SubSeq(p, LastIndex(p, "/") + 1, Len(p)))

\* the .fasta files directly inside directory d, however d is spelt
FastaFilesIn(directory) ==
    Glob(IF directory[Len(directory)] = "/" THEN directory ELSE Append(directory, "/"))

\* C10: every alignment name is the file name without directory prefix and
\* extension; directory mode takes exactly the .fasta files directly inside the
\* directory, with or without a trailing separator.
C10_NamesAndDirectoryFiles ==
    /\ \A i \in DOMAIN processed : processed[i].name = BaseName(processed[i].align)
    /\ (args.directory # None /\ pc # "main") =>
          Range(queue) \cup {processed[i].align : i \in DOMAIN processed}
              = FastaFilesIn(args.directory)
====
